---- MODULE Spec2Model ----
(***************************************************************************)
(* A model of believer's best-code search (generators/best_code_finder.rs) *)
(* and of its sparse parity-check matrix (parity_check_matrix.rs).         *)
(*                                                                         *)
(* Probabilities and failure rates are counted in halves: 0, 1, 2 stand    *)
(* for 0.0, 0.5, 1.0.  A 64-bit seed is one of SeedValues.  The caller's   *)
(* random source is the stream of values it will still produce.            *)
(***************************************************************************)
EXTENDS Integers, Sequences, FiniteSets

\* ---------------------------------------------------------------- bounds
MaxCodes == 3
MaxTarget == 1
MaxLen == 3
MaxRow == 2
MaxCol == 2
MaxVec == 3

\* --------------------------------------------------- program constants
ProbOne == 2
DefaultProb == 1
WorstRate == 2

SeedValues == {0, 1}
Policies == {"iterations", "events"}
ProbInputs == -1 .. (ProbOne + 1)
Streams == [1 .. MaxCodes -> SeedValues]

VARIABLES
    pc,            \* "config", "panicked", "seeding", "running", "done"
    code_finder,   \* BestCodeFinderUsingErasure: the configuration
    policy,        \* which helper struct runs: NIterations... or NEvents...
    n_target,      \* its n_iterations / n_events
    random_seeds,  \* its random_seeds
    rng,           \* the random source the search draws from
    rng0,          \* that source's state when the search was started
    draws,         \* number of values drawn from rng by the current search
    task,          \* the parallel reduce: one entry per chunk of 0..n_codes
    gen_calls,     \* per candidate index: calls of generate_with_rng
    dec_calls,     \* per candidate index: decoder simulations run
    produced,      \* per candidate index: the pair its worker produced
    returned,      \* what the search returned
    run,           \* 1 for the first search, 2 for its repetition
    first,         \* what the first search returned
    decoder_rate,  \* the decoder's outcome for each sub-source
    mpc,           \* "input" before ParityCheckMatrix::new, "built" after
    positions,     \* the (row, col) list given to ParityCheckMatrix::new
    matrix,        \* the ParityCheckMatrix: row_ranges and column_indices
    slice_row,     \* the row last asked of row_slice, -1 before any call
    slice,         \* what that call did
    vector,        \* the dense vector last given to Slice::dot
    dot_result,    \* what Slice::dot returned, -1 before any call
    cpolicy,       \* the helper whose get_best_between is applied
    operands,      \* three (matrix, result) pairs a, b, c given to it
    applied        \* what it returned for (a,b), (b,a), ((a,b),c), (a,(b,c))

fvars == <<pc, code_finder, policy, n_target, random_seeds, rng, rng0, draws,
           task, gen_calls, dec_calls, produced, returned, run, first,
           decoder_rate>>
mvars == <<mpc, positions, matrix, slice_row, slice, vector, dot_result>>
cvars == <<cpolicy, operands, applied>>
vars == <<fvars, mvars, cvars>>

\* ------------------------------------------------------------ data types
None == [some |-> FALSE, m |-> 0]
Some(m) == [some |-> TRUE, m |-> m]

\* SimulationResult::worse_result()
worse_result == [rate |-> WorstRate, policy |-> "none", n |-> 0]

\* SimulationResult::is_better_than: a strictly lower failure rate
is_better_than(a, b) == a.rate < b.rate

\* the closure || (None, SimulationResult::worse_result())
identity == [code |-> None, result |-> worse_result]

NotReturned == [code |-> None, result |-> [rate |-> WorstRate, policy |-> "pending", n |-> 0]]

\* ---------------------------------------------------------- the combine
NIterations_comparing_first_with_itself(fst, snd) ==
    IF is_better_than(fst.result, fst.result) THEN fst ELSE snd

NEvents_better_by_a_margin(fst, snd) ==
    IF fst.result.rate + 1 < snd.result.rate THEN fst ELSE snd

NIterations_keep_first_on_tie(fst, snd) ==
    IF is_better_than(snd.result, fst.result) THEN snd ELSE fst

NEvents_keep_the_worse(fst, snd) ==
    IF is_better_than(fst.result, snd.result) THEN snd ELSE fst

NIterations_get_best_between(fst, snd) ==
    IF is_better_than(fst.result, snd.result) THEN fst ELSE snd

NEvents_get_best_between(fst, snd) ==
    IF is_better_than(fst.result, snd.result) THEN fst ELSE snd

get_best_between(p, fst, snd) ==
    IF p = "iterations" THEN NIterations_get_best_between(fst, snd)
    ELSE NEvents_get_best_between(fst, snd)

\* the closure |accumulator, code_and_result| Self::get_best_between(..)
reduce_op(p, accumulator, code_and_result) ==
    get_best_between(p, accumulator, code_and_result)

\* ------------------------------------------------ external capabilities
\* a worker takes the next unused seed instead of the seed of its index
get_rng_for_in_arrival_order(seeds, index) ==
    [seed |-> seeds[Cardinality({i \in DOMAIN gen_calls : gen_calls[i] > 0}) + 1],
     pos |-> 0]

\* every worker seeds its sub-source from the first seed
get_rng_for_ignoring_index(seeds, index) == [seed |-> seeds[1], pos |-> 0]

\* ChaCha8Rng::seed_from_u64(self.random_seeds[index])
get_rng_for(seeds, index) == [seed |-> seeds[index + 1], pos |-> 0]

\* CodeGenerator::generate_with_rng: one matrix, decided by the sub-source
generate_with_rng(sub) == sub.seed + 1
AfterGenerate(sub) == [sub EXCEPT !.pos = 1]

\* the failure rate a decoder bound to (matrix, prob) observes on sub-source sub
ObservedRate(prob, sub) ==
    IF prob = 0 THEN 0
    ELSE IF prob = ProbOne THEN WorstRate
    ELSE decoder_rate[sub.seed]

simulate_n_iterations_with_rng(prob, n, sub) ==
    [rate |-> ObservedRate(prob, sub), policy |-> "iterations", n |-> n]

simulate_until_n_events_are_found_with_rng(prob, n, sub) ==
    [rate |-> ObservedRate(prob, sub), policy |-> "events", n |-> n]

\* simulate_one_code_with_rng, from the decoder's construction on
NIterations_simulate_one_code(prob, n, code, sub) ==
    [code |-> Some(code), result |-> simulate_n_iterations_with_rng(prob, n, sub)]

NEvents_simulate_one_code_with_n_iterations(prob, n, code, sub) ==
    [code |-> Some(code), result |-> simulate_n_iterations_with_rng(prob, n, sub)]

NEvents_simulate_one_code(prob, n, code, sub) ==
    [code |-> Some(code), result |-> simulate_until_n_events_are_found_with_rng(prob, n, sub)]

simulate_one_code(p, prob, n, code, sub) ==
    IF p = "iterations" THEN NIterations_simulate_one_code(prob, n, code, sub)
    ELSE NEvents_simulate_one_code(prob, n, code, sub)

\* ------------------------------------------------- the parallel reduce
Nodes == {nd \in (0 .. MaxCodes) \X (0 .. MaxCodes) : nd[1] <= nd[2]}
Indices == 0 .. (MaxCodes - 1)
Len2(nd) == nd[2] - nd[1]
Mid(nd) == nd[1] + (Len2(nd) \div 2)
Left(nd) == <<nd[1], Mid(nd)>>
Right(nd) == <<Mid(nd), nd[2]>>

NoRng == [seed |-> 0, pos |-> 0]
\* a chunk nobody has started: its fold will begin at index lo from the identity
Pending(lo) == [st |-> "pending", next |-> lo, rng |-> NoRng, code |-> None, acc |-> identity]
NoTasks == <<>>
StOf(nd) == IF nd \in DOMAIN task THEN task[nd].st ELSE "none"
NoCalls == [i \in Indices |-> 0]
NoPairs == [i \in Indices |-> identity]
Root == <<0, code_finder.n_codes_to_try>>

\* -------------------------------------------------------- configuration
\* BestCodeFinderUsingErasure::from_code_generator
from_code_generator ==
    [code_generator |-> "generator", erasure_prob |-> DefaultProb, n_codes_to_try |-> 0]

FinderInit ==
    /\ pc = "config"
    /\ code_finder = from_code_generator
    /\ policy = "none"
    /\ n_target = 0
    /\ random_seeds = <<>>
    /\ rng0 = rng
    /\ draws = 0
    /\ task = NoTasks
    /\ gen_calls = NoCalls
    /\ dec_calls = NoCalls
    /\ produced = NoPairs
    /\ returned = NotReturned
    /\ run = 1
    /\ first = NotReturned

NoMatrix == [row_ranges |-> <<>>, column_indices |-> <<>>]
NoSlice == [kind |-> "not called", positions |-> <<>>]

MatrixIdle ==
    /\ mpc = "input"
    /\ matrix = NoMatrix
    /\ slice_row = -1
    /\ slice = NoSlice
    /\ vector = <<>>
    /\ dot_result = -1

NothingApplied ==
    [ab |-> NotReturned, ba |-> NotReturned, ab_c |-> NotReturned, a_bc |-> NotReturned]

CombineIdle ==
    /\ cpolicy = "none"
    /\ operands = <<>>
    /\ applied = NothingApplied

Init ==
    /\ rng \in Streams
    /\ decoder_rate \in [SeedValues -> 0 .. WorstRate]
    /\ FinderInit
    /\ positions = <<>>
    /\ MatrixIdle
    /\ CombineIdle

among_n_codes(n_codes) ==
    /\ pc = "config"
    /\ code_finder' = [code_finder EXCEPT !.n_codes_to_try = n_codes]
    /\ UNCHANGED <<pc, policy, n_target, random_seeds, rng, rng0, draws, task,
                   gen_calls, dec_calls, produced, returned, run, first, decoder_rate>>
    /\ UNCHANGED <<mvars, cvars>>

\* the same with the bounds 0 and 1 themselves refused
with_erasure_prob_excluding_bounds(prob) ==
    /\ pc = "config"
    /\ IF prob <= 0 \/ prob >= ProbOne
       THEN /\ pc' = "panicked"
            /\ UNCHANGED code_finder
       ELSE /\ code_finder' = [code_finder EXCEPT !.erasure_prob = prob]
            /\ UNCHANGED pc
    /\ UNCHANGED <<policy, n_target, random_seeds, rng, rng0, draws, task,
                   gen_calls, dec_calls, produced, returned, run, first, decoder_rate>>
    /\ UNCHANGED <<mvars, cvars>>

with_erasure_prob(prob) ==
    /\ pc = "config"
    /\ IF prob < 0 \/ prob > ProbOne
       THEN /\ pc' = "panicked"
            /\ UNCHANGED code_finder
       ELSE /\ code_finder' = [code_finder EXCEPT !.erasure_prob = prob]
            /\ UNCHANGED pc
    /\ UNCHANGED <<policy, n_target, random_seeds, rng, rng0, draws, task,
                   gen_calls, dec_calls, produced, returned, run, first, decoder_rate>>
    /\ UNCHANGED <<mvars, cvars>>

\* find_best_code_simulating_n_{iterations,events}_with_rng up to the first
\* statement of find_with_rng: the helper is built with n and no seeds
find_with_rng_resetting_the_builder(p, n) ==
    /\ pc = "config"
    /\ pc' = "seeding"
    /\ policy' = p
    /\ n_target' = n
    /\ random_seeds' = <<>>
    /\ rng0' = rng
    /\ code_finder' = from_code_generator
    /\ UNCHANGED <<rng, draws, task, gen_calls, dec_calls, produced,
                   returned, run, first, decoder_rate>>
    /\ UNCHANGED <<mvars, cvars>>

find_with_rng(p, n) ==
    /\ pc = "config"
    /\ pc' = "seeding"
    /\ policy' = p
    /\ n_target' = n
    /\ random_seeds' = <<>>
    /\ rng0' = rng
    /\ UNCHANGED <<code_finder, rng, draws, task, gen_calls, dec_calls, produced,
                   returned, run, first, decoder_rate>>
    /\ UNCHANGED <<mvars, cvars>>

\* find_best_code_simulating_n_{iterations,events}: the same on thread_rng()
find_with_thread_rng(p, n) ==
    /\ pc = "config"
    /\ pc' = "seeding"
    /\ policy' = p
    /\ n_target' = n
    /\ random_seeds' = <<>>
    /\ rng' \in Streams
    /\ rng0' = rng'
    /\ UNCHANGED <<code_finder, draws, task, gen_calls, dec_calls, produced,
                   returned, run, first, decoder_rate>>
    /\ UNCHANGED <<mvars, cvars>>

\* .take(self.code_finder.n_codes_to_try)
SeedsToTake_one_more == code_finder.n_codes_to_try + 1
SeedsToTake == code_finder.n_codes_to_try

\* the seeds are drawn from some other source than the one passed in
draw_seed_from_elsewhere ==
    /\ pc = "seeding"
    /\ Len(random_seeds) < SeedsToTake
    /\ \E v \in SeedValues : random_seeds' = Append(random_seeds, v)
    /\ rng' = Tail(rng)
    /\ draws' = draws + 1
    /\ UNCHANGED <<pc, code_finder, policy, n_target, rng0, task, gen_calls,
                   dec_calls, produced, returned, run, first, decoder_rate>>
    /\ UNCHANGED <<mvars, cvars>>

\* initialize_random_seeds_with_rng: one draw of sample_iter(Standard).take(n)
draw_seed ==
    /\ pc = "seeding"
    /\ Len(random_seeds) < SeedsToTake
    /\ random_seeds' = Append(random_seeds, Head(rng))
    /\ rng' = Tail(rng)
    /\ draws' = draws + 1
    /\ UNCHANGED <<pc, code_finder, policy, n_target, rng0, task, gen_calls,
                   dec_calls, produced, returned, run, first, decoder_rate>>
    /\ UNCHANGED <<mvars, cvars>>

\* (0..n_codes_to_try).into_par_iter(): the whole range is one chunk
into_par_iter ==
    /\ pc = "seeding"
    /\ Len(random_seeds) = SeedsToTake
    /\ pc' = "running"
    /\ task' = [nd \in {Root} |-> Pending(0)]
    /\ UNCHANGED <<code_finder, policy, n_target, random_seeds, rng, rng0, draws,
                   gen_calls, dec_calls, produced, returned, run, first, decoder_rate>>
    /\ UNCHANGED <<mvars, cvars>>

\* rayon splits a chunk nobody has started in two halves
split(nd) ==
    /\ pc = "running"
    /\ StOf(nd) = "pending"
    /\ Len2(nd) >= 2
    /\ task' = [x \in DOMAIN task \cup {Left(nd), Right(nd)} |->
                   IF x = nd THEN [task[nd] EXCEPT !.st = "split"]
                   ELSE IF x = Left(nd) THEN Pending(nd[1])
                   ELSE IF x = Right(nd) THEN Pending(Mid(nd))
                   ELSE task[x]]
    /\ UNCHANGED <<pc, code_finder, policy, n_target, random_seeds, rng, rng0, draws,
                   gen_calls, dec_calls, produced, returned, run, first, decoder_rate>>
    /\ UNCHANGED <<mvars, cvars>>

\* the map closure up to the generator's return, on the chunk's next index;
\* a chunk's fold starts from the identity
generate(nd) ==
    /\ pc = "running"
    /\ StOf(nd) \in {"pending", "folding"}
    /\ task[nd].next < nd[2]
    /\ ~task[nd].code.some
    /\ LET sub == get_rng_for(random_seeds, task[nd].next)
       IN  task' = [task EXCEPT ![nd].st = "folding",
                                ![nd].rng = AfterGenerate(sub),
                                ![nd].code = Some(generate_with_rng(sub))]
    /\ gen_calls' = [gen_calls EXCEPT ![task[nd].next] = @ + 1]
    /\ UNCHANGED <<pc, code_finder, policy, n_target, random_seeds, rng, rng0, draws,
                   dec_calls, produced, returned, run, first, decoder_rate>>
    /\ UNCHANGED <<mvars, cvars>>

\* the worker gives the candidate up and moves on to the next index
simulate_cancelling(nd) ==
    /\ pc = "running"
    /\ StOf(nd) = "folding"
    /\ task[nd].code.some
    /\ task' = [task EXCEPT
                  ![nd].code = None,
                  ![nd].rng = NoRng,
                  ![nd].next = @ + 1,
                  ![nd].st = IF task[nd].next + 1 = nd[2] THEN "done" ELSE "folding"]
    /\ UNCHANGED <<pc, code_finder, policy, n_target, random_seeds, rng, rng0, draws,
                   gen_calls, dec_calls, produced, returned, run, first, decoder_rate>>
    /\ UNCHANGED <<mvars, cvars>>

\* the rest of simulate_one_code_with_rng, and the fold's reduce_op(acc, pair)
simulate(nd) ==
    /\ pc = "running"
    /\ StOf(nd) = "folding"
    /\ task[nd].code.some
    /\ LET i == task[nd].next
           pair == simulate_one_code(policy, code_finder.erasure_prob, n_target,
                                     task[nd].code.m, task[nd].rng)
       IN  /\ task' = [task EXCEPT
                         ![nd].acc = reduce_op(policy, task[nd].acc, pair),
                         ![nd].code = None,
                         ![nd].rng = NoRng,
                         ![nd].next = i + 1,
                         ![nd].st = IF i + 1 = nd[2] THEN "done" ELSE "folding"]
           /\ produced' = [produced EXCEPT ![i] = pair]
           /\ dec_calls' = [dec_calls EXCEPT ![i] = @ + 1]
    /\ UNCHANGED <<pc, code_finder, policy, n_target, random_seeds, rng, rng0, draws,
                   gen_calls, returned, run, first, decoder_rate>>
    /\ UNCHANGED <<mvars, cvars>>

\* the fold of an empty range is the identity
fold_empty(nd) ==
    /\ pc = "running"
    /\ StOf(nd) = "pending"
    /\ Len2(nd) = 0
    /\ task' = [task EXCEPT ![nd].st = "done"]
    /\ UNCHANGED <<pc, code_finder, policy, n_target, random_seeds, rng, rng0, draws,
                   gen_calls, dec_calls, produced, returned, run, first, decoder_rate>>
    /\ UNCHANGED <<mvars, cvars>>

\* both halves of a split chunk are done: reduce_op(left, right)
join(nd) ==
    /\ pc = "running"
    /\ StOf(nd) = "split"
    /\ StOf(Left(nd)) = "done"
    /\ StOf(Right(nd)) = "done"
    /\ task' = [x \in DOMAIN task \ {Left(nd), Right(nd)} |->
                   IF x = nd
                   THEN [task[nd] EXCEPT
                           !.st = "done",
                           !.acc = reduce_op(policy, task[Left(nd)].acc, task[Right(nd)].acc)]
                   ELSE task[x]]
    /\ UNCHANGED <<pc, code_finder, policy, n_target, random_seeds, rng, rng0, draws,
                   gen_calls, dec_calls, produced, returned, run, first, decoder_rate>>
    /\ UNCHANGED <<mvars, cvars>>

\* reduce returns the root's value; find_with_rng returns it to the caller
return ==
    /\ pc = "running"
    /\ StOf(Root) = "done"
    /\ pc' = "done"
    /\ returned' = task[Root].acc
    /\ task' = NoTasks
    /\ UNCHANGED <<code_finder, policy, n_target, random_seeds, rng, rng0, draws,
                   gen_calls, dec_calls, produced, run, first, decoder_rate>>
    /\ UNCHANGED <<mvars, cvars>>

\* the caller repeats the search on a clone of the source it started from
repeat ==
    /\ pc = "done"
    /\ run = 1
    /\ run' = 2
    /\ first' = returned
    /\ rng' = rng0
    /\ pc' = "seeding"
    /\ random_seeds' = <<>>
    /\ draws' = 0
    /\ gen_calls' = NoCalls
    /\ dec_calls' = NoCalls
    /\ produced' = NoPairs
    /\ returned' = NotReturned
    /\ UNCHANGED <<code_finder, policy, n_target, rng0, task, decoder_rate>>
    /\ UNCHANGED <<mvars, cvars>>

Next ==
    \/ \E n \in 0 .. MaxCodes : among_n_codes(n)
    \/ \E p \in ProbInputs : with_erasure_prob(p)
    \/ \E p \in Policies, n \in 0 .. MaxTarget : find_with_rng(p, n)
    \/ \E p \in Policies, n \in 0 .. MaxTarget : find_with_thread_rng(p, n)
    \/ draw_seed
    \/ into_par_iter
    \/ \E nd \in Nodes : split(nd)
    \/ \E nd \in Nodes : generate(nd)
    \/ \E nd \in Nodes : simulate(nd)
    \/ \E nd \in Nodes : fold_empty(nd)
    \/ \E nd \in Nodes : join(nd)
    \/ return
    \/ repeat

Spec == Init /\ [][Next]_vars

\* ------------------------------------ a fixed-iteration search, fairly run
\* find_best_code_simulating_n_iterations{,_with_rng} on a finder built in
\* any way; one outcome table for the decoder
LiveInit ==
    /\ Init
    /\ decoder_rate = [s \in SeedValues |-> s]

LiveNext ==
    \/ \E n \in 0 .. MaxCodes : among_n_codes(n)
    \/ \E p \in ProbInputs : with_erasure_prob(p)
    \/ \E n \in 0 .. MaxTarget : find_with_rng("iterations", n)
    \/ \E n \in 0 .. MaxTarget : find_with_thread_rng("iterations", n)
    \/ draw_seed
    \/ into_par_iter
    \/ \E nd \in Nodes : split(nd)
    \/ \E nd \in Nodes : generate(nd)
    \/ \E nd \in Nodes : simulate(nd)
    \/ \E nd \in Nodes : fold_empty(nd)
    \/ \E nd \in Nodes : join(nd)
    \/ return

\* the calling thread goes on, and the pool runs a worker that has work
CallerStep == draw_seed \/ into_par_iter \/ return
WorkerStep ==
    \E nd \in Nodes : generate(nd) \/ simulate(nd) \/ fold_empty(nd) \/ join(nd)
Fairness == WF_vars(CallerStep) /\ WF_vars(WorkerStep)

LiveSpec == LiveInit /\ [][LiveNext]_vars /\ Fairness

\* --------------------------------------------------- ParityCheckMatrix
Last(seq) == seq[Len(seq)]

\* while active_row < row { row_ranges.push(last + row_lenght); active_row += 1 }
RECURSIVE PadRows(_, _)
PadRows(st, row) ==
    IF st.active_row < row
    THEN PadRows([st EXCEPT !.row_ranges = Append(@, Last(@) + st.row_lenght),
                            !.active_row = @ + 1],
                 row)
    ELSE st

\* the body of  for (row, col) in positions.into_iter()
ForBody(st, pos) ==
    LET row == pos[1]
        col == pos[2]
        counted == IF row = st.active_row
                   THEN [st EXCEPT !.row_lenght = @ + 1]
                   ELSE [PadRows(st, row) EXCEPT !.row_lenght = 1]
    IN  [counted EXCEPT !.column_indices = Append(@, col)]

RECURSIVE ForLoop(_, _, _)
ForLoop(st, ps, i) ==
    IF i > Len(ps) THEN st ELSE ForLoop(ForBody(st, ps[i]), ps, i + 1)

\* ParityCheckMatrix::new
new(ps) ==
    LET start == [row_ranges |-> <<0>>, column_indices |-> <<>>,
                  active_row |-> 0, row_lenght |-> 0]
        st == ForLoop(start, ps, 1)
    IN  [row_ranges |-> Append(st.row_ranges, Last(st.row_ranges) + st.row_lenght),
         column_indices |-> st.column_indices]

NoSuchRow == [kind |-> "None", positions |-> <<>>]
Panicked == [kind |-> "panic", positions |-> <<>>]

\* ParityCheckMatrix::row_slice; Vec::get is 0-based, the slice index panics
\* when the range does not lie in column_indices
row_slice(m, row) ==
    IF ~(row < Len(m.row_ranges)) THEN NoSuchRow
    ELSE IF ~(row + 1 < Len(m.row_ranges)) THEN NoSuchRow
    ELSE LET row_start == m.row_ranges[row + 1]
             row_end == m.row_ranges[row + 2]
         IN  IF row_start > row_end \/ row_end > Len(m.column_indices)
             THEN Panicked
             ELSE [kind |-> "Some",
                   positions |-> SubSeq(m.column_indices, row_start + 1, row_end)]

\* GF2: B0 and B1 with addition modulo 2
GF2 == {0, 1}
GF2Add(a, b) == (a + b) % 2

\* the closure body with total = value in place of total = total + value
DotStep_assigning(total, other, pos) ==
    IF pos < Len(other) THEN other[pos + 1] ELSE total

\* other.get(pos).map(|&value| total = total + value)
DotStep(total, other, pos) ==
    IF pos < Len(other) THEN GF2Add(total, other[pos + 1]) ELSE total

RECURSIVE DotLoop(_, _, _, _)
DotLoop(total, ps, other, k) ==
    IF k > Len(ps) THEN total
    ELSE DotLoop(DotStep(total, other, ps[k]), ps, other, k + 1)

\* Slice::dot
dot(ps, other) == DotLoop(0, ps, other, 1)

Vectors == UNION {[1 .. k -> GF2] : k \in 0 .. MaxVec}

\* the matrix and the bits of the test dot_product
DotProductTest == <<<<0, 0>>, <<0, 1>>, <<1, 1>>, <<1, 2>>>>
DotProductBits == <<0, 1, 1>>

Cells == (0 .. MaxRow) \X (0 .. MaxCol)
IsRowSorted(ps) == \A i \in 1 .. (Len(ps) - 1) : ps[i][1] <= ps[i + 1][1]
SortedPositions ==
    {ps \in UNION {[1 .. k -> Cells] : k \in 0 .. MaxLen} : IsRowSorted(ps)}

MatrixInit ==
    /\ rng = [i \in 1 .. MaxCodes |-> 0]
    /\ decoder_rate = [s \in SeedValues |-> WorstRate]
    /\ FinderInit
    /\ positions \in SortedPositions \cup {DotProductTest}
    /\ MatrixIdle
    /\ CombineIdle

new_call ==
    /\ mpc = "input"
    /\ matrix' = new(positions)
    /\ mpc' = "built"
    /\ UNCHANGED <<positions, slice_row, slice, vector, dot_result>>
    /\ UNCHANGED <<fvars, cvars>>

row_slice_call(row) ==
    /\ mpc = "built"
    /\ slice_row' = row
    /\ slice' = row_slice(matrix, row)
    /\ mpc' = IF slice'.kind = "panic" THEN "panicked" ELSE "built"
    /\ vector' = <<>>
    /\ dot_result' = -1
    /\ UNCHANGED <<positions, matrix>>
    /\ UNCHANGED <<fvars, cvars>>

\* Slice::dot on the slice row_slice just returned (one dot per slice taken)
dot_call(other) ==
    /\ mpc = "built"
    /\ slice.kind = "Some"
    /\ dot_result = -1
    /\ vector' = other
    /\ dot_result' = dot(slice.positions, other)
    /\ UNCHANGED <<mpc, positions, matrix, slice_row, slice>>
    /\ UNCHANGED <<fvars, cvars>>

MatrixNext ==
    \/ new_call
    \/ \E row \in 0 .. (MaxRow + 2) : row_slice_call(row)
    \/ \E other \in Vectors \cup {DotProductBits} : dot_call(other)

MatrixSpec == MatrixInit /\ [][MatrixNext]_vars

\* ------------------------------------------- get_best_between by itself
\* the pairs a reduce can hand to it: the identity, and what a worker of
\* helper p can produce
CandidatePairs(p) ==
    {simulate_one_code(p, DefaultProb, n, generate_with_rng(sub), AfterGenerate(sub)) :
        n \in 0 .. MaxTarget, sub \in {get_rng_for(<<v>>, 0) : v \in SeedValues}}
AnyRate(pairs) ==
    {[pr EXCEPT !.result.rate = r] : pr \in pairs, r \in 0 .. WorstRate}
PairSpace(p) == {identity} \cup AnyRate(CandidatePairs(p))

CombineInit ==
    /\ rng = [i \in 1 .. MaxCodes |-> 0]
    /\ decoder_rate = [s \in SeedValues |-> WorstRate]
    /\ FinderInit
    /\ positions = <<>>
    /\ MatrixIdle
    /\ cpolicy \in Policies
    /\ operands \in [1 .. 3 -> PairSpace(cpolicy)]
    /\ applied = NothingApplied

apply_ab ==
    /\ applied.ab = NotReturned
    /\ applied' = [applied EXCEPT
                      !.ab = get_best_between(cpolicy, operands[1], operands[2])]
    /\ UNCHANGED <<cpolicy, operands, fvars, mvars>>

apply_ba ==
    /\ applied.ba = NotReturned
    /\ applied' = [applied EXCEPT
                      !.ba = get_best_between(cpolicy, operands[2], operands[1])]
    /\ UNCHANGED <<cpolicy, operands, fvars, mvars>>

apply_ab_c ==
    /\ applied.ab_c = NotReturned
    /\ applied' = [applied EXCEPT
                      !.ab_c = get_best_between(cpolicy,
                                   get_best_between(cpolicy, operands[1], operands[2]),
                                   operands[3])]
    /\ UNCHANGED <<cpolicy, operands, fvars, mvars>>

apply_a_bc ==
    /\ applied.a_bc = NotReturned
    /\ applied' = [applied EXCEPT
                      !.a_bc = get_best_between(cpolicy, operands[1],
                                   get_best_between(cpolicy, operands[2], operands[3]))]
    /\ UNCHANGED <<cpolicy, operands, fvars, mvars>>

CombineNext == apply_ab \/ apply_ba \/ apply_ab_c \/ apply_a_bc

CombineSpec == CombineInit /\ [][CombineNext]_vars

\* ================================================================ claims
NCodes == code_finder.n_codes_to_try
Candidates == 0 .. (NCodes - 1)

\* what candidate i yields when it works on the i-th value the source held
\* when the search started
SubSourceOf(i) == [seed |-> rng0[i + 1], pos |-> 0]
PairOf(i) ==
    simulate_one_code(policy, code_finder.erasure_prob, n_target,
                      generate_with_rng(SubSourceOf(i)), AfterGenerate(SubSourceOf(i)))
NoneBetter(i) == \A j \in Candidates : ~is_better_than(PairOf(j).result, PairOf(i).result)
Best == {i \in Candidates : NoneBetter(i)}
MaxOf(S) == CHOOSE x \in S : \A y \in S : y <= x
MinOf(S) == CHOOSE x \in S : \A y \in S : x <= y

\* C1: a search repeated on a clone of the random source, with the same
\* configuration, policy and n, returns the pair the first search returned,
\* whatever the chunks and interleavings of the two runs were.
C1_Determinism == (run = 2 /\ pc = "done") => returned = first

C1_Witness ==
    /\ run = 2
    /\ pc = "done"
    /\ NCodes = MaxCodes
    /\ code_finder.erasure_prob = DefaultProb
    /\ random_seeds[1] # random_seeds[2]
    /\ decoder_rate[0] # decoder_rate[1]
    /\ returned = first
    /\ returned.code.some

\* C2: the returned pair is decided by the index-to-seed assignment alone: it
\* is the identity for no candidate, and else the pair of the highest index
\* among the candidates no other candidate beats, for every split of the
\* range into chunks and every interleaving of the workers and joins.
C2_SchedulingIndependence ==
    pc = "done" =>
        returned = IF NCodes = 0 THEN identity ELSE PairOf(MaxOf(Best))

C2_Witness ==
    /\ pc = "done"
    /\ NCodes = MaxCodes
    /\ Cardinality(Best) >= 2
    /\ \E i \in Best, j \in Best : PairOf(i).code # PairOf(j).code
    /\ returned = PairOf(MaxOf(Best))

C4_TieKeepsFirst ==
    /\ \A i \in Candidates, j \in Candidates :
           (/\ i < j
            /\ dec_calls[i] = 1
            /\ dec_calls[j] = 1
            /\ ~is_better_than(produced[i].result, produced[j].result)
            /\ ~is_better_than(produced[j].result, produced[i].result))
           => get_best_between(policy, produced[i], produced[j]) = produced[i]
    /\ (pc = "done" /\ NCodes >= 1) => returned = PairOf(MinOf(Best))

\* C5: a search among 0 codes calls neither the generator nor a decoder,
\* draws nothing from the random source, and returns (None, worse_result).
C5_EmptySearch ==
    (NCodes = 0 /\ pc \in {"seeding", "running", "done"}) =>
        /\ gen_calls = NoCalls
        /\ dec_calls = NoCalls
        /\ draws = 0
        /\ rng = rng0
        /\ pc = "done" => (returned.code = None /\ returned.result = worse_result)

C5_Witness ==
    /\ pc = "done"
    /\ NCodes = 0
    /\ policy = "events"
    /\ n_target = MaxTarget
    /\ code_finder.erasure_prob = ProbOne
    /\ returned.code = None
    /\ returned.result = worse_result

C7_NoneUnlessBetterThanWorst ==
    pc = "done" =>
        (returned.code.some <=>
             \E i \in Candidates : is_better_than(produced[i].result, worse_result))

\* C8: for a non-empty row-sorted list with maximum row m, row_ranges has
\* m + 2 entries, starts at 0, never decreases, and the range of each row
\* r <= m selects exactly the columns of the pairs of row r, in input order.
RECURSIVE ColumnsOfRow(_, _, _)
ColumnsOfRow(ps, r, i) ==
    IF i > Len(ps) THEN <<>>
    ELSE (IF ps[i][1] = r THEN <<ps[i][2]>> ELSE <<>>) \o ColumnsOfRow(ps, r, i + 1)

LastRow(ps) == MaxOf({ps[i][1] : i \in 1 .. Len(ps)})

C8_RowContents ==
    (mpc # "input" /\ positions # <<>>) =>
        LET rr == matrix.row_ranges
            ci == matrix.column_indices
        IN  /\ Len(rr) = LastRow(positions) + 2
            /\ rr[1] = 0
            /\ \A k \in 1 .. (Len(rr) - 1) : rr[k] <= rr[k + 1]
            /\ \A r \in 0 .. LastRow(positions) :
                   /\ rr[r + 2] <= Len(ci)
                   /\ SubSeq(ci, rr[r + 1] + 1, rr[r + 2]) = ColumnsOfRow(positions, r, 1)

\* C9: row_slice never panics, and returns a slice exactly when row and
\* row + 1 are both indices into row_ranges.
C9_RowSliceNeverRaises ==
    slice_row >= 0 =>
        /\ slice.kind # "panic"
        /\ slice.kind = "Some" <=> slice_row + 1 < Len(matrix.row_ranges)

\* C10: the matrix built from the empty list has one entry in row_ranges,
\* and row_slice finds no row in it, row 0 included.
C10_EmptyInput ==
    (mpc # "input" /\ positions = <<>>) =>
        /\ Len(matrix.row_ranges) = 1
        /\ slice_row >= 0 => slice.kind = "None"

\* C11: for a non-empty row-sorted list with maximum row m, row_slice(r)
\* finds no row for every r > m and returns a slice for every r <= m.
C11_InvalidRow ==
    (slice_row >= 0 /\ positions # <<>>) =>
        /\ slice_row > LastRow(positions) => slice.kind = "None"
        /\ slice_row <= LastRow(positions) => slice.kind = "Some"

\* C12: dot returns the sum modulo 2 of the vector's values at the slice's
\* column indices below the vector's length, each occurrence counted; indices
\* at or beyond the length are skipped, an empty slice gives 0, and on the
\* matrix and bits of the test dot_product row 0 gives 1 and row 1 gives 0.
OnesHit ==
    {k \in 1 .. Len(slice.positions) :
        /\ slice.positions[k] < Len(vector)
        /\ vector[slice.positions[k] + 1] = 1}

C12_SliceDot ==
    dot_result >= 0 =>
        /\ dot_result = Cardinality(OnesHit) % 2
        /\ slice.positions = <<>> => dot_result = 0
        /\ (positions = DotProductTest /\ vector = DotProductBits /\ slice_row = 0)
               => dot_result = 1
        /\ (positions = DotProductTest /\ vector = DotProductBits /\ slice_row = 1)
               => dot_result = 0

C12_Witness ==
    /\ dot_result = 1
    /\ Len(slice.positions) >= 3
    /\ Cardinality(OnesHit) = 1
    /\ \E k \in 1 .. Len(slice.positions) : slice.positions[k] >= Len(vector)
    /\ \E k \in 1 .. Len(slice.positions) :
           slice.positions[k] < Len(vector) /\ vector[slice.positions[k] + 1] = 0

\* C13: with_erasure_prob panics for every value below 0 or above 1, before
\* any search has run, and nothing can be done with the finder afterwards;
\* for every value in [0, 1], the bounds included, it returns the finder
\* holding exactly that value.
C13_ProbabilityBound ==
    [][/\ pc # "panicked"
       /\ \A p \in ProbInputs :
              with_erasure_prob(p) =>
                  IF p < 0 \/ p > ProbOne
                  THEN pc' = "panicked" /\ policy' = "none" /\ returned' = NotReturned
                  ELSE /\ pc' = "config"
                       /\ code_finder' = [code_finder EXCEPT !.erasure_prob = p]]_vars

C13_Witness ==
    /\ pc = "panicked"
    /\ code_finder.erasure_prob = ProbOne
    /\ NCodes = MaxCodes

\* C14: a search among N codes draws exactly N seeds from the source, in
\* index order, and has drawn them all before any worker starts; the worker
\* of candidate i seeds its sub-source from the i-th drawn seed, and the
\* source does not move while the workers run.
C14_SequentialPreSeeding ==
    /\ pc = "seeding" =>
           /\ task = NoTasks
           /\ gen_calls = NoCalls
           /\ dec_calls = NoCalls
           /\ draws <= NCodes
    /\ pc \in {"seeding", "running", "done"} =>
           /\ Len(random_seeds) = draws
           /\ random_seeds = SubSeq(rng0, 1, draws)
           /\ rng = SubSeq(rng0, draws + 1, Len(rng0))
    /\ pc \in {"running", "done"} => draws = NCodes
    /\ \A nd \in DOMAIN task :
           task[nd].code.some =>
               task[nd].rng = AfterGenerate([seed |-> rng0[task[nd].next + 1], pos |-> 0])

C14_Witness ==
    /\ pc = "running"
    /\ NCodes = MaxCodes
    /\ rng0[1] # rng0[MaxCodes]
    /\ \E nd \in DOMAIN task :
           /\ task[nd].code.some
           /\ task[nd].next = MaxCodes - 1
           /\ task[nd].rng.seed = rng0[MaxCodes]


\* ---- C15, C16, C17: get_best_between as an algebraic operation
A == operands[1]
B == operands[2]
C == operands[3]
Tied(x, y) == ~is_better_than(x.result, y.result) /\ ~is_better_than(y.result, x.result)

C16_Associative ==
    (applied.ab_c # NotReturned /\ applied.a_bc # NotReturned) =>
        applied.ab_c = applied.a_bc

C16_Witness ==
    /\ applied.ab_c # NotReturned /\ applied.a_bc # NotReturned
    /\ A.result.rate = 0 /\ B.result.rate = 1 /\ C = identity
    /\ applied.ab_c = A

C18_Pipeline ==
    /\ \A i \in Indices :
           /\ dec_calls[i] <= gen_calls[i]
           /\ gen_calls[i] <= 1
           /\ i >= NCodes => gen_calls[i] = 0
           /\ dec_calls[i] = 1 =>
                  /\ produced[i].code = Some(generate_with_rng(SubSourceOf(i)))
                  /\ produced[i].result.policy = policy
                  /\ produced[i].result.n = n_target
                  /\ produced[i].result.rate =
                         ObservedRate(code_finder.erasure_prob, AfterGenerate(SubSourceOf(i)))
    /\ \A nd \in DOMAIN task :
           task[nd].code.some =>
               /\ gen_calls[task[nd].next] = 1
               /\ dec_calls[task[nd].next] = 0
               /\ task[nd].code = Some(generate_with_rng(SubSourceOf(task[nd].next)))
               /\ task[nd].rng = AfterGenerate(SubSourceOf(task[nd].next))
    /\ pc = "done" => \A i \in Candidates : gen_calls[i] = 1 /\ dec_calls[i] = 1

C18_Witness ==
    /\ pc = "done"
    /\ policy = "events"
    /\ NCodes = MaxCodes
    /\ n_target = MaxTarget
    /\ rng0[1] # rng0[2]
    /\ produced[0].code # produced[1].code
    /\ \A i \in Candidates : dec_calls[i] = 1


\* C19: a search leaves the finder's configuration as it found it, from its
\* start to its return and into a following search on the same finder; it
\* starts with an empty seed storage of its own; the caller's random source
\* changes only while seeds are drawn, and at the return it is the source
\* the search started from advanced by exactly N draws.
C19_SearchFrame ==
    [][/\ pc # "config" => code_finder' = code_finder
       /\ (pc # "seeding" /\ pc' = "seeding") =>
              /\ code_finder' = code_finder
              /\ random_seeds' = <<>>
              /\ rng0' = rng'
       /\ (pc = "running" \/ pc' = "done") => rng' = rng
       /\ pc' = "done" =>
              /\ draws' = NCodes
              /\ Len(rng') = Len(rng0') - NCodes
              /\ rng' = SubSeq(rng0', NCodes + 1, Len(rng0'))]_vars

C19_Witness ==
    /\ pc = "done"
    /\ run = 2
    /\ NCodes = MaxCodes - 1
    /\ code_finder.erasure_prob = 0
    /\ Len(rng) = 1
    /\ rng # SubSeq(rng0, 1, 1)


\* C20: under the fixed-iteration policy, with the caller and the workers
\* scheduled fairly, a search that has started eventually returns; every
\* candidate whose generator call has been made gets its decoder run, with
\* exactly the caller's n, and no candidate is generated or simulated twice
\* or left out of a returned search.
C20_Termination ==
    /\ (pc = "seeding") ~> (pc = "done")
    /\ \A i \in Indices :
           (gen_calls[i] = 1) ~>
               (dec_calls[i] = 1 /\ produced[i].result.n = n_target
                /\ produced[i].result.policy = "iterations")
    /\ [](\A i \in Indices : gen_calls[i] <= 1 /\ dec_calls[i] <= 1)
    /\ [](pc = "done" => \A i \in Candidates : dec_calls[i] = 1)

C20_Witness ==
    /\ pc = "done"
    /\ policy = "iterations"
    /\ NCodes = MaxCodes
    /\ n_target = MaxTarget
    /\ \A i \in Candidates : produced[i].result.n = MaxTarget

====
